---------------------------- MODULE Spec2Model ----------------------------
(***************************************************************************)
(* A model of cbt::stern_brocot<T> (src/include/cbt/stern_brocot.hpp):     *)
(* the reduced-fraction value type over a fixed-width signed integer T,    *)
(* its arithmetic and comparison operators, the continued-fraction search  *)
(* approximate(double, T) and the expansion to_continued_fraction(); of    *)
(* Farey sequence generation by mediant insertion (spec.md section 4.3);   *)
(* of cbt::modular<T, Modulus> (src/include/cbt/modular.hpp); and of       *)
(* cbt::residue_number_system<int32_t, N>                                  *)
(* (src/include/cbt/residue_number_system.hpp), at the full width of       *)
(* int32_t.                                                                *)
(* Each component has its own specification over the shared variables:     *)
(* Spec, SpecApprox, SpecCF, SpecFarey, SpecMod, SpecRns.                  *)
(*                                                                         *)
(* T is a two's-complement integer of TBits bits.  double and long double  *)
(* are binary floating-point formats with DoubleBits and LongDoubleBits    *)
(* significand bits, round-to-nearest-even; their values are kept as exact *)
(* rationals <<n, d>> and every operation that rounds in the code rounds   *)
(* here.  The widths are scaled down from int / double / x87 long double   *)
(* (32 / 53 / 64) keeping int < double < long double and                   *)
(* 1/epsilon > max(T).                                                     *)
(*                                                                         *)
(* Signed overflow and an out-of-range float-to-integer conversion are     *)
(* undefined behaviour.  The variable build fixes what the compiled        *)
(* program does there:                                                     *)
(*   "wrap_indefinite"  overflow wraps, conversion gives min(T)  (x86)     *)
(*   "wrap_saturate"    overflow wraps, conversion saturates     (AArch64) *)
(*   "trap"             either one aborts the process (-ftrapv, UBSan)     *)
(***************************************************************************)
EXTENDS Integers, Sequences, FiniteSets, TLC

VARIABLES
    build,      \* what the compiled program does on undefined behaviour
    pc,         \* position of the caller / of the running call
    call,       \* the operation called last and its integer arguments
    lhs,        \* *this   : a constructed stern_brocot, <<num_, den_>>
    rhs,        \* other   : a constructed stern_brocot, <<num_, den_>>
    ret,        \* what the operation called last returned or threw
    x,          \* approximate: the argument x
    max_den,    \* approximate: the argument max_den
    value,      \* approximate: long double value = |x|
    prev_num,   \* approximate: the locals of the search loop
    prev_den,
    curr_num,
    curr_den,
    cf_value,
    iterations,
    exit,       \* approximate: the way the loop was left
    cf_n,       \* to_continued_fraction: the locals n, d and the vector cf
    cf_d,
    cf_seq,
    farey_N,    \* Farey generation: the order N
    farey_seq,  \* Farey generation: the working sequence of <<num_, den_>>
    farey_pos,  \* Farey generation: the adjacent pair under examination
    Modulus,    \* modular<T, Modulus>: the template argument
    mod_a,      \* modular: value_ of *this
    mod_b,      \* modular: value_ of other
    moduli_,        \* residue_number_system: the moduli of the system
    dynamic_range_, \* residue_number_system: their product, in T
    residues_,      \* residue_number_system: the residues of *this
    other_residues, \* residue_number_system: the residues of other
    value_a,        \* residue_number_system: the integer *this was made from
    value_b,        \* residue_number_system: the integer other was made from
    rns_op,         \* residue_number_system: the operation that made *this
    ub          \* undefined behaviour has been executed in this call

ratVars == <<call, lhs, rhs>>
approxVars ==
    <<x, max_den, value, prev_num, prev_den, curr_num, curr_den,
      cf_value, iterations, exit>>
cfVars == <<cf_n, cf_d, cf_seq>>
fareyVars == <<farey_N, farey_seq, farey_pos>>
modVars == <<Modulus, mod_a, mod_b>>
rnsVars ==
    <<moduli_, dynamic_range_, residues_, other_residues, value_a, value_b, rns_op>>
extVars == <<cfVars, fareyVars, modVars, rnsVars>>
vars == <<build, pc, ret, ub, ratVars, approxVars, extVars>>

-----------------------------------------------------------------------------
(* Bounds of the model *)

TBits == 4              \* width of T
DoubleBits == 5         \* significand bits of double
LongDoubleBits == 7     \* significand bits of long double
XFracBits == 8          \* x ranges over multiples of 2^-XFracBits ...
XMaxExp == 0            \* ... with a DoubleBits significand, up to 2^(DoubleBits+XMaxExp)

Builds == {"wrap_indefinite", "wrap_saturate", "trap"}

-----------------------------------------------------------------------------
(* The integer type T *)

TMin == -(2^(TBits - 1))
TMax == 2^(TBits - 1) - 1
T == TMin..TMax

InT(v) == TMin <= v /\ v <= TMax

\* The value a wrapping build leaves in a T after computing v.
Wrap(v) == ((v - TMin) % (2^TBits)) + TMin

Abs(v) == IF v < 0 THEN -v ELSE v

RECURSIVE Euclid(_, _)
Euclid(m, n) == IF n = 0 THEN m ELSE Euclid(n, m % n)

\* std::gcd(m, n) as libstdc++ computes it: on the absolute values as
\* unsigned integers, the result converted back to T.
StdGcd(m, n) == Wrap(Euclid(Abs(m), Abs(n)))

\* C++ integer division: the quotient truncated toward zero.
TruncDiv(m, n) ==
    IF (m >= 0) = (n > 0) THEN Abs(m) \div Abs(n) ELSE -(Abs(m) \div Abs(n))


-----------------------------------------------------------------------------
(* What a call returns, throws, or dies of *)

Value(n, d, u) ==
    [kind |-> "value", num |-> n, den |-> d, flag |-> FALSE, what |-> "", ub |-> u]

Bool(b, u) ==
    [kind |-> "bool", num |-> 0, den |-> 1, flag |-> b, what |-> "", ub |-> u]

\* throw std::invalid_argument(msg)
InvalidArgument(msg) ==
    [kind |-> "invalid_argument", num |-> 0, den |-> 1, flag |-> FALSE,
     what |-> msg, ub |-> FALSE]

\* The process is killed at the undefined operation (trapping build).
Abort ==
    [kind |-> "abort", num |-> 0, den |-> 1, flag |-> FALSE, what |-> "", ub |-> TRUE]

NoRet ==
    [kind |-> "none", num |-> 0, den |-> 1, flag |-> FALSE, what |-> "", ub |-> FALSE]

-----------------------------------------------------------------------------
(* stern_brocot<T>: construction and reduction *)

\* reduce(): divide by the gcd when it exceeds 1, then move the sign to the
\* numerator.  The two negations are evaluated in T.
Reduce(n, d) ==
    LET g == StdGcd(n, d)
        n1 == IF g > 1 THEN n \div g ELSE n
        d1 == IF g > 1 THEN d \div g ELSE d
    IN  IF d1 < 0
        THEN [num |-> Wrap(-n1), den |-> Wrap(-d1),
              ub |-> ~InT(-n1) \/ ~InT(-d1)]
        ELSE [num |-> n1, den |-> d1, ub |-> FALSE]

\* A faulty constructor: the test den_ == 0 is missing.
SternBrocotUnchecked(n, d, u) ==
    IF u /\ build = "trap" THEN Abort
    ELSE LET r == Reduce(n, d)
         IN  IF r.ub /\ build = "trap" THEN Abort
             ELSE Value(r.num, r.den, u \/ r.ub)

\* stern_brocot(T n, T d); u: evaluating the arguments overflowed.
SternBrocot(n, d, u) ==
    IF u /\ build = "trap" THEN Abort
    ELSE IF d = 0 THEN InvalidArgument("Denominator cannot be zero")
    ELSE LET r == Reduce(n, d)
         IN  IF r.ub /\ build = "trap" THEN Abort
             ELSE Value(r.num, r.den, u \/ r.ub)

\* stern_brocot(): 0/1
Default == <<0, 1>>

num_(a) == a[1]
den_(a) == a[2]

-----------------------------------------------------------------------------
(* stern_brocot<T>: arithmetic, each product and sum evaluated in T *)

OperatorPlus(a, b) ==
    LET p1 == num_(a) * den_(b)
        p2 == num_(b) * den_(a)
        s  == Wrap(p1) + Wrap(p2)
        q  == den_(a) * den_(b)
    IN  SternBrocot(Wrap(s), Wrap(q),
                    ~InT(p1) \/ ~InT(p2) \/ ~InT(s) \/ ~InT(q))

OperatorMinus(a, b) ==
    LET p1 == num_(a) * den_(b)
        p2 == num_(b) * den_(a)
        s  == Wrap(p1) - Wrap(p2)
        q  == den_(a) * den_(b)
    IN  SternBrocot(Wrap(s), Wrap(q),
                    ~InT(p1) \/ ~InT(p2) \/ ~InT(s) \/ ~InT(q))

OperatorTimes(a, b) ==
    LET p == num_(a) * num_(b)
        q == den_(a) * den_(b)
    IN  SternBrocot(Wrap(p), Wrap(q), ~InT(p) \/ ~InT(q))

OperatorDivide(a, b) ==
    IF num_(b) = 0 THEN InvalidArgument("Division by zero")
    ELSE LET p == num_(a) * den_(b)
             q == den_(a) * num_(b)
         IN  SternBrocot(Wrap(p), Wrap(q), ~InT(p) \/ ~InT(q))

Mediant(a, b) ==
    LET p == num_(a) + num_(b)
        q == den_(a) + den_(b)
    IN  SternBrocot(Wrap(p), Wrap(q), ~InT(p) \/ ~InT(q))

-----------------------------------------------------------------------------
(* stern_brocot<T>: comparison by cross-multiplication in T *)

Compared(b, u) == IF u /\ build = "trap" THEN Abort ELSE Bool(b, u)

OperatorEq(a, b) ==
    LET p1 == num_(a) * den_(b)
        p2 == num_(b) * den_(a)
    IN  Compared(Wrap(p1) = Wrap(p2), ~InT(p1) \/ ~InT(p2))

OperatorLess(a, b) ==
    LET p1 == num_(a) * den_(b)
        p2 == num_(b) * den_(a)
    IN  Compared(Wrap(p1) < Wrap(p2), ~InT(p1) \/ ~InT(p2))

-----------------------------------------------------------------------------
(* A caller: constructs two values, then applies one operation to them *)

NoCall == [op |-> "none", n |-> 0, d |-> 0]

ApproxIdle ==
    /\ x = [cls |-> "finite", n |-> 0, d |-> 1]
    /\ max_den = 1
    /\ value = <<0, 1>>
    /\ prev_num = 0 /\ prev_den = 1
    /\ curr_num = 1 /\ curr_den = 0
    /\ cf_value = <<0, 1>>
    /\ iterations = 0
    /\ exit = "none"

CFIdle == cf_n = 0 /\ cf_d = 1 /\ cf_seq = << >>

FareyIdle == farey_N = 1 /\ farey_seq = << >> /\ farey_pos = 1

ModIdle == Modulus = 1 /\ mod_a = 0 /\ mod_b = 0

RnsIdle ==
    /\ moduli_ = << >>
    /\ dynamic_range_ = 1
    /\ residues_ = << >>
    /\ other_residues = << >>
    /\ value_a = 0
    /\ value_b = 0
    /\ rns_op = "none"

Init ==
    /\ build \in Builds
    /\ pc = "start"
    /\ call = NoCall
    /\ lhs = Default
    /\ rhs = Default
    /\ ret = NoRet
    /\ ub = FALSE
    /\ ApproxIdle
    /\ CFIdle
    /\ FareyIdle
    /\ ModIdle
    /\ RnsIdle

\* stern_brocot<T> v(n, d): the first value built is *this, the second other.
Construct ==
    /\ pc \in {"start", "lhs"}
    /\ \E n \in T, d \in T :
        \E r \in {SternBrocot(n, d, FALSE)} :
            /\ call' = [op |-> "stern_brocot", n |-> n, d |-> d]
            /\ ret' = r
            /\ ub' = r.ub
            /\ pc' = IF r.kind # "value" THEN "done"
                     ELSE IF pc = "start" THEN "lhs" ELSE "operands"
            /\ lhs' = IF r.kind = "value" /\ pc = "start"
                      THEN <<r.num, r.den>> ELSE lhs
            /\ rhs' = IF r.kind = "value" /\ pc = "lhs"
                      THEN <<r.num, r.den>> ELSE rhs
    /\ UNCHANGED <<build, extVars, approxVars>>

Invoke(op, r) ==
    /\ pc = "operands"
    /\ call' = [op |-> op, n |-> 0, d |-> 0]
    /\ ret' = r
    /\ ub' = r.ub
    /\ pc' = "done"
    /\ UNCHANGED <<build, extVars, lhs, rhs, approxVars>>

Plus == Invoke("operator+", OperatorPlus(lhs, rhs))
Minus == Invoke("operator-", OperatorMinus(lhs, rhs))
Times == Invoke("operator*", OperatorTimes(lhs, rhs))
Divide == Invoke("operator/", OperatorDivide(lhs, rhs))
TakeMediant == Invoke("mediant", Mediant(lhs, rhs))
Equal == Invoke("operator==", OperatorEq(lhs, rhs))
Less == Invoke("operator<", OperatorLess(lhs, rhs))

Next ==
    \/ Construct
    \/ Plus
    \/ Minus
    \/ Times
    \/ Divide
    \/ TakeMediant
    \/ Equal
    \/ Less

Spec == Init /\ [][Next]_vars

-----------------------------------------------------------------------------
(* Floating point: values are exact rationals <<n, d>>, d > 0, in lowest   *)
(* terms; an operation's exact result is rounded to the nearest value with *)
(* a significand of p bits, ties to even.                                  *)

Rat(n, d) ==
    LET g == Euclid(Abs(n), Abs(d))
    IN  IF d > 0 THEN <<n \div g, d \div g>> ELSE <<(-n) \div g, (-d) \div g>>

RatSub(a, b) == Rat(a[1] * b[2] - b[1] * a[2], a[2] * b[2])
RatInv(a) == Rat(a[2], a[1])
RatAbs(a) == <<Abs(a[1]), a[2]>>
RatLess(a, b) == a[1] * b[2] < b[1] * a[2]
RatLeq(a, b) == a[1] * b[2] <= b[1] * a[2]

\* n/d rounded to an integer, ties to even (n >= 0, d > 0).
RoundHalfEven(n, d) ==
    LET q == n \div d
        r == n % d
    IN  IF 2 * r > d \/ (2 * r = d /\ q % 2 = 1) THEN q + 1 ELSE q

RECURSIVE RoundScaled(_, _, _, _)
RoundScaled(p, n, d, e) ==
    IF n >= (2^p) * d THEN RoundScaled(p, n, 2 * d, e + 1)
    ELSE IF n < (2^(p - 1)) * d THEN RoundScaled(p, 2 * n, d, e - 1)
    ELSE LET m == RoundHalfEven(n, d)
         IN  IF e >= 0 THEN Rat(m * (2^e), 1) ELSE Rat(m, 2^(-e))

Round(p, q) ==
    IF q[1] = 0 THEN <<0, 1>>
    ELSE LET r == RoundScaled(p, Abs(q[1]), q[2], 0)
         IN  IF q[1] < 0 THEN <<-r[1], r[2]>> ELSE r

\* long double arithmetic
LongDouble(q) == Round(LongDoubleBits, q)
LSub(a, b) == LongDouble(RatSub(a, b))
LDiv(n, d) == LongDouble(Rat(n, d))
LInv(a) == LongDouble(RatInv(a))

\* std::floor
Floor(q) == q[1] \div q[2]

\* std::numeric_limits<long double>::epsilon()
epsilon == <<1, 2^(LongDoubleBits - 1)>>

\* The largest finite double is below 2^DoubleMaxExp (1024 = 16 * 64 for
\* IEEE double beside the x87 long double).
DoubleMaxExp == 2 * LongDoubleBits

\* std::isfinite(static_cast<double>(v)) for a finite long double v
IsFiniteAsDouble(v) == RatLess(RatAbs(Round(DoubleBits, v)), <<2^DoubleMaxExp, 1>>)

\* static_cast<T>(v) of an integral floating value v
ToT(v) ==
    IF InT(v) THEN v
    ELSE IF build = "wrap_saturate" THEN (IF v > 0 THEN TMax ELSE TMin)
    ELSE TMin

\* The doubles x is drawn from: every s * m * 2^e with a DoubleBits
\* significand m and -XFracBits <= e <= XMaxExp, NaN and the infinities.
Finite(n, d) == [cls |-> "finite", n |-> n, d |-> d]

Doubles ==
    { LET q == (IF e >= 0 THEN Rat(s * m * (2^e), 1) ELSE Rat(s * m, 2^(-e)))
      IN  Finite(q[1], q[2]) :
        s \in {-1, 1}, m \in 0..(2^DoubleBits - 1), e \in (-XFracBits)..XMaxExp }
    \cup { [cls |-> "nan", n |-> 0, d |-> 1],
           [cls |-> "inf", n |-> 1, d |-> 1],
           [cls |-> "inf", n |-> -1, d |-> 1] }

isfinite(v) == v.cls = "finite"

-----------------------------------------------------------------------------
(* stern_brocot<T>::approximate(double x, T max_den) *)

IterationCap == 256

negative == x.n < 0


\* The semiconvergent step taken when the next convergent overshoots
\* max_den: t = (max_den - prev_den) / curr_den in T, the candidate
\* t*curr + prev, and the comparison of the two rounded errors.
Semiconvergent(pn, pd, cn, cd) ==
    IF cd = 0
    THEN [num |-> cn, den |-> cd, ub |-> FALSE, fpe |-> FALSE]
    ELSE
      LET s    == max_den - pd
          fpe  == Wrap(s) = TMin /\ cd = -1
          t    == IF fpe THEN TMin ELSE TruncDiv(Wrap(s), cd)
          m1   == t * cn
          cnum == Wrap(m1) + pn
          m2   == t * cd
          cden == Wrap(m2) + pd
          candidate_num == Wrap(cnum)
          candidate_den == Wrap(cden)
          ovf  == ~InT(m1) \/ ~InT(cnum) \/ ~InT(m2) \/ ~InT(cden)
      IN  IF t > 0
          THEN
            IF candidate_den > 0
               /\ LET candidate_val   == LDiv(candidate_num, candidate_den)
                      current_val     == LDiv(cn, cd)
                      candidate_error == RatAbs(LSub(value, candidate_val))
                      current_error   == RatAbs(LSub(value, current_val))
                  IN  RatLess(candidate_error, current_error)
            THEN [num |-> candidate_num, den |-> candidate_den,
                  ub |-> ~InT(s) \/ ovf, fpe |-> FALSE]
            ELSE [num |-> cn, den |-> cd, ub |-> ~InT(s) \/ ovf, fpe |-> FALSE]
          ELSE [num |-> cn, den |-> cd, ub |-> ~InT(s) \/ fpe, fpe |-> fpe]

\* One execution of the loop body from the locals (pn/pd, cn/cd, cf).
LoopBody(pn, pd, cn, cd, cf) ==
    LET fl  == Floor(cf)
        a   == ToT(fl)
        m1  == a * cn
        nn  == Wrap(m1) + pn
        m2  == a * cd
        nd  == Wrap(m2) + pd
        next_num == Wrap(nn)
        next_den == Wrap(nd)
        ovf == ~InT(fl) \/ ~InT(m1) \/ ~InT(nn) \/ ~InT(m2) \/ ~InT(nd)
    IN  IF next_den > max_den
        THEN LET sc == Semiconvergent(pn, pd, cn, cd)
             IN  [exit |-> "overshoot", pn |-> pn, pd |-> pd,
                  cn |-> sc.num, cd |-> sc.den, cf |-> cf,
                  ub |-> ovf \/ sc.ub, fpe |-> sc.fpe]
        ELSE LET remainder == LSub(cf, LongDouble(<<a, 1>>))
             IN  IF RatLeq(RatAbs(remainder), epsilon)
                 THEN [exit |-> "exact", pn |-> cn, pd |-> cd,
                       cn |-> next_num, cd |-> next_den, cf |-> cf,
                       ub |-> ovf, fpe |-> FALSE]
                 ELSE LET r == LInv(remainder)
                      IN  [exit |-> IF IsFiniteAsDouble(r)
                                    THEN "continue" ELSE "nonfinite",
                           pn |-> cn, pd |-> cd,
                           cn |-> next_num, cd |-> next_den, cf |-> r,
                           ub |-> ovf, fpe |-> FALSE]

\* What the compiled program does with a step that executed undefined
\* behaviour: a trapping build dies; an integer division min(T) / -1 raises
\* SIGFPE where the divide instruction faults (x86).
Dies(step) ==
    \/ step.ub /\ build = "trap"
    \/ step.fpe /\ build # "wrap_saturate"

\* The code after the loop: the 0/1 fallback, the constructor, the sign.
Result(cn, cd, u) ==
    LET result == IF cd = 0 THEN SternBrocot(0, 1, u)
                  ELSE SternBrocot(cn, cd, u)
    IN  IF result.kind = "value" /\ negative
        THEN SternBrocot(Wrap(-result.num), result.den,
                         result.ub \/ ~InT(-result.num))
        ELSE result

\* A faulty bound test: max_den < 0 in place of max_den <= 0.
InvalidBoundStrict(n) == n < 0

\* if (max_den <= 0) throw
InvalidBound(n) == n <= 0

InitApprox ==
    /\ build \in Builds
    /\ pc = "approximate"
    /\ call = [op |-> "approximate", n |-> 0, d |-> 0]
    /\ lhs = Default
    /\ rhs = Default
    /\ ret = NoRet
    /\ ub = FALSE
    /\ x \in Doubles
    /\ max_den \in T
    /\ value = <<0, 1>>
    /\ prev_num = 0 /\ prev_den = 1
    /\ curr_num = 1 /\ curr_den = 0
    /\ cf_value = <<0, 1>>
    /\ iterations = 0
    /\ exit = "none"
    /\ CFIdle
    /\ FareyIdle
    /\ ModIdle
    /\ RnsIdle

\* The argument checks, the x == 0.0 shortcut and the loop's initial state.
ApproxEnter ==
    /\ pc = "approximate"
    /\ IF InvalidBound(max_den)
       THEN /\ ret' = InvalidArgument("max_den must be positive")
            /\ pc' = "done"
            /\ UNCHANGED <<value, cf_value>>
       ELSE IF ~isfinite(x)
       THEN /\ ret' = InvalidArgument("Cannot approximate NaN or infinity")
            /\ pc' = "done"
            /\ UNCHANGED <<value, cf_value>>
       ELSE IF x.n = 0
       THEN /\ ret' = SternBrocot(0, 1, FALSE)
            /\ pc' = "done"
            /\ UNCHANGED <<value, cf_value>>
       ELSE /\ value' = LongDouble(<<Abs(x.n), x.d>>)
            /\ cf_value' = value'
            /\ pc' = "loop"
            /\ UNCHANGED ret
    /\ UNCHANGED <<build, extVars, ub, ratVars, x, max_den, prev_num, prev_den,
                   curr_num, curr_den, iterations, exit>>

\* One pass through the body of the for loop.
ApproxIterate ==
    /\ pc = "loop"
    /\ iterations < IterationCap
    /\ \E step \in {LoopBody(prev_num, prev_den, curr_num, curr_den, cf_value)} :
           IF Dies(step)
           THEN /\ ret' = Abort
                /\ ub' = TRUE
                /\ pc' = "done"
                /\ UNCHANGED <<prev_num, prev_den, curr_num, curr_den,
                               cf_value, iterations, exit>>
           ELSE /\ prev_num' = step.pn
                /\ prev_den' = step.pd
                /\ curr_num' = step.cn
                /\ curr_den' = step.cd
                /\ cf_value' = step.cf
                /\ ub' = (ub \/ step.ub)
                /\ iterations' = IF step.exit = "continue"
                                 THEN iterations + 1 ELSE iterations
                /\ exit' = IF step.exit = "continue" THEN exit ELSE step.exit
                /\ pc' = IF step.exit = "continue" THEN "loop" ELSE "after_loop"
                /\ UNCHANGED ret
    /\ UNCHANGED <<build, extVars, ratVars, x, max_den, value>>

\* The loop condition fails: 256 passes were made without a break.
ApproxCap ==
    /\ pc = "loop"
    /\ iterations = IterationCap
    /\ exit' = "cap"
    /\ pc' = "after_loop"
    /\ UNCHANGED <<build, extVars, ret, ub, ratVars, x, max_den, value, prev_num,
                   prev_den, curr_num, curr_den, cf_value, iterations>>

\* Lines after the loop: build and return the result.
ApproxReturn ==
    /\ pc = "after_loop"
    /\ ret' = Result(curr_num, curr_den, ub)
    /\ ub' = ret'.ub
    /\ pc' = "done"
    /\ UNCHANGED <<build, extVars, ratVars, approxVars>>

NextApprox ==
    \/ ApproxEnter
    \/ ApproxIterate
    \/ ApproxCap
    \/ ApproxReturn

SpecApprox == InitApprox /\ [][NextApprox]_vars


-----------------------------------------------------------------------------
(* stern_brocot<T>::to_continued_fraction() *)

\* The vector cf is returned; its elements are in cf_seq.
Vector(u) ==
    [kind |-> "vector", num |-> 0, den |-> 1, flag |-> FALSE, what |-> "", ub |-> u]

\* The values a program can hold: whatever the constructor returns.
Constructed ==
    { <<r.num, r.den>> :
        r \in { c \in { SternBrocot(n, d, FALSE) : n \in T, d \in T } :
                  c.kind = "value" } }

\* One pass through the while loop from the locals n, d:
\* q = n / d; d = n - q * d; n = temp, all in T.
DivideStep(n, d) ==
    LET fpe == n = TMin /\ d = -1
        q   == IF fpe THEN TMin ELSE TruncDiv(n, d)
        m   == q * d
        r   == n - Wrap(m)
    IN  [q |-> q, n |-> d, d |-> Wrap(r),
         ub |-> fpe \/ ~InT(m) \/ ~InT(r), fpe |-> fpe]

InitCF ==
    /\ build \in Builds
    /\ pc = "to_continued_fraction"
    /\ call = [op |-> "to_continued_fraction", n |-> 0, d |-> 0]
    /\ lhs \in Constructed
    /\ rhs = Default
    /\ ret = NoRet
    /\ ub = FALSE
    /\ ApproxIdle
    /\ CFIdle
    /\ FareyIdle
    /\ ModIdle
    /\ RnsIdle

\* std::vector<T> cf; T n = num_, d = den_;
CFEnter ==
    /\ pc = "to_continued_fraction"
    /\ cf_seq' = << >>
    /\ cf_n' = num_(lhs)
    /\ cf_d' = den_(lhs)
    /\ pc' = "while"
    /\ UNCHANGED <<build, ret, ub, ratVars, approxVars, fareyVars, modVars, rnsVars>>

\* while (d != 0) { ... }: one pass.
CFIterate ==
    /\ pc = "while"
    /\ cf_d # 0
    /\ \E step \in {DivideStep(cf_n, cf_d)} :
           IF Dies(step)
           THEN /\ ret' = Abort
                /\ ub' = TRUE
                /\ pc' = "done"
                /\ UNCHANGED cfVars
           ELSE /\ cf_seq' = Append(cf_seq, step.q)
                /\ cf_n' = step.n
                /\ cf_d' = step.d
                /\ ub' = (ub \/ step.ub)
                /\ UNCHANGED <<pc, ret>>
    /\ UNCHANGED <<build, ratVars, approxVars, fareyVars, modVars, rnsVars>>

\* d == 0: return cf;
CFReturn ==
    /\ pc = "while"
    /\ cf_d = 0
    /\ ret' = Vector(ub)
    /\ pc' = "done"
    /\ UNCHANGED <<build, ub, ratVars, approxVars, extVars>>

NextCF ==
    \/ CFEnter
    \/ CFIterate
    \/ CFReturn

SpecCF == InitCF /\ [][NextCF]_vars

\* The call runs on its own thread of control: a pass that can be made is made.
SpecCFLive == SpecCF /\ WF_vars(NextCF)


-----------------------------------------------------------------------------
(* Farey sequence generation by mediant insertion (spec.md section 4.3).   *)
(* The generator is not part of the sources; it is modelled from its       *)
(* description, on the constructor and mediant() of stern_brocot<T>.       *)

\* The failure InvalidBound of farey(N) for N <= 0.
FareyInvalidBound ==
    [kind |-> "InvalidBound", num |-> 0, den |-> 1, flag |-> FALSE,
     what |-> "", ub |-> FALSE]

\* The sequence farey_seq is returned.
FareySequence ==
    [kind |-> "sequence", num |-> 0, den |-> 1, flag |-> FALSE,
     what |-> "", ub |-> FALSE]

\* The two-element sequence [0/1, 1/1] the scan starts from.
FareyStart == << <<0, 1>>, <<1, 1>> >>

\* A faulty test: b + d < N in place of b + d <= N.
MediantAdmissibleStrict(a, c, N) == den_(a) + den_(c) < N

\* The mediant of the adjacent pair a, c belongs to the sequence of order N.
MediantAdmissible(a, c, N) == den_(a) + den_(c) <= N

\* A faulty scan: after an insertion the position advances past the
\* new entry, so the pair it forms with its left neighbour is skipped.
AfterInsertSkip(pos) == pos + 1

\* After an insertion the same position is examined again.
AfterInsert(pos) == pos

\* A faulty insertion: m is put before the entry at pos.
InsertBefore(s, pos, m) ==
    SubSeq(s, 1, pos - 1) \o <<m>> \o SubSeq(s, pos, Len(s))

\* The sequence s with m put between the entries at pos and pos + 1.
InsertBetween(s, pos, m) ==
    SubSeq(s, 1, pos) \o <<m>> \o SubSeq(s, pos + 1, Len(s))

InitFarey ==
    /\ build \in Builds
    /\ pc = "farey"
    /\ call = [op |-> "farey", n |-> 0, d |-> 0]
    /\ lhs = Default
    /\ rhs = Default
    /\ ret = NoRet
    /\ ub = FALSE
    /\ ApproxIdle
    /\ CFIdle
    /\ farey_N \in T
    /\ farey_seq = << >>
    /\ farey_pos = 1
    /\ ModIdle
    /\ RnsIdle

\* farey(N): the bound check and the initial sequence.
FareyEnter ==
    /\ pc = "farey"
    /\ IF farey_N <= 0
       THEN /\ ret' = FareyInvalidBound
            /\ pc' = "done"
            /\ UNCHANGED farey_seq
       ELSE /\ farey_seq' = FareyStart
            /\ pc' = "scan"
            /\ UNCHANGED ret
    /\ UNCHANGED <<build, ub, ratVars, approxVars, cfVars, farey_N, farey_pos,
                   modVars, rnsVars>>

\* The pair at the position admits its mediant: insert it, stay.
FareyInsert ==
    /\ pc = "scan"
    /\ farey_pos < Len(farey_seq)
    /\ MediantAdmissible(farey_seq[farey_pos], farey_seq[farey_pos + 1], farey_N)
    /\ \E m \in {Mediant(farey_seq[farey_pos], farey_seq[farey_pos + 1])} :
           IF m.kind = "value"
           THEN /\ farey_seq' = InsertBetween(farey_seq, farey_pos, <<m.num, m.den>>)
                /\ farey_pos' = AfterInsert(farey_pos)
                /\ ub' = (ub \/ m.ub)
                /\ UNCHANGED <<pc, ret>>
           ELSE /\ ret' = m
                /\ ub' = m.ub
                /\ pc' = "done"
                /\ UNCHANGED <<farey_seq, farey_pos>>
    /\ UNCHANGED <<build, ratVars, approxVars, cfVars, farey_N, modVars, rnsVars>>

\* The pair at the position does not admit its mediant: next pair.
FareyAdvance ==
    /\ pc = "scan"
    /\ farey_pos < Len(farey_seq)
    /\ ~MediantAdmissible(farey_seq[farey_pos], farey_seq[farey_pos + 1], farey_N)
    /\ farey_pos' = farey_pos + 1
    /\ UNCHANGED <<build, pc, ret, ub, ratVars, approxVars, cfVars, farey_N,
                   farey_seq, modVars, rnsVars>>

\* Every adjacent pair has been advanced past: return the sequence.
FareyReturn ==
    /\ pc = "scan"
    /\ farey_pos >= Len(farey_seq)
    /\ ret' = FareySequence
    /\ pc' = "done"
    /\ UNCHANGED <<build, ub, ratVars, approxVars, extVars>>

NextFarey ==
    \/ FareyEnter
    \/ FareyInsert
    \/ FareyAdvance
    \/ FareyReturn

SpecFarey == InitFarey /\ [][NextFarey]_vars

\* The generator is one synchronous call: a step that can be taken is taken.
SpecFareyLive == SpecFarey /\ WF_vars(NextFarey)


-----------------------------------------------------------------------------
(* modular<T, Modulus> (src/include/cbt/modular.hpp)                       *)

\* long long is twice as wide as T (64 bits beside the 32 of int).
LongLongBits == 2 * TBits

\* The value a long long holds after computing v.
WrapLongLong(v) ==
    ((v + 2^(LongLongBits - 1)) % (2^LongLongBits)) - 2^(LongLongBits - 1)

\* The C++ remainder m % n: it has the sign of m.
TruncRem(m, n) == m - TruncDiv(m, n) * n

\* A modular value with value_ = v is returned.
Modular(v, u) ==
    [kind |-> "modular", num |-> v, den |-> 1, flag |-> FALSE, what |-> "", ub |-> u]

\* throw std::runtime_error(msg)
RuntimeError(msg) ==
    [kind |-> "runtime_error", num |-> 0, den |-> 1, flag |-> FALSE,
     what |-> msg, ub |-> FALSE]

\* The call never returns: unbounded recursion.
NoReturn ==
    [kind |-> "no_return", num |-> 0, den |-> 1, flag |-> FALSE, what |-> "", ub |-> TRUE]

\* A faulty mod(): the remainder is returned with its sign.
ModRemainderOnly(v) == TruncRem(v, Modulus)

\* static T mod(T x)
Mod(v) ==
    LET result == TruncRem(v, Modulus)
    IN  IF result < 0 THEN result + Modulus ELSE result

\* explicit modular(T value); u: evaluating the argument overflowed.
ModularOf(v, u) == IF u /\ build = "trap" THEN Abort ELSE Modular(Mod(v), u)

ModPlus(a, b) == ModularOf(Wrap(a + b), ~InT(a + b))

ModMinus(a, b) == ModularOf(Wrap(a - b), ~InT(a - b))

\* The product is formed in long long and converted to T by the
\* constructor's parameter; the conversion keeps the low bits.
ModTimes(a, b) == ModularOf(Wrap(WrapLongLong(a * b)), FALSE)

ModNegate(a) == ModularOf(Wrap(-a), ~InT(-a))

\* extended_gcd(a, b, x, y): the gcd and the coefficients, computed in T.
RECURSIVE ExtendedGcd(_, _)
ExtendedGcd(a, b) ==
    IF b = 0 THEN [gcd |-> a, x |-> 1, y |-> 0, ub |-> FALSE]
    ELSE LET r == ExtendedGcd(b, TruncRem(a, b))
             m == TruncDiv(a, b) * r.y
             s == r.x - Wrap(m)
         IN  [gcd |-> r.gcd, x |-> r.y, y |-> Wrap(s),
              ub |-> r.ub \/ ~InT(m) \/ ~InT(s)]

ModInverse(a) ==
    LET e == ExtendedGcd(a, Modulus)
    IN  IF e.ub /\ build = "trap" THEN Abort
        ELSE IF e.gcd # 1 THEN RuntimeError("Modular inverse does not exist")
        ELSE ModularOf(e.x, e.ub)

ModDivide(a, b) ==
    LET i == ModInverse(b)
    IN  IF i.kind # "modular" THEN i ELSE ModTimes(a, i.num)

\* The loop of pow: square and multiply, exponent > 0 shifted right.
RECURSIVE PowLoop(_, _, _)
PowLoop(result, base, exponent) ==
    IF exponent > 0
    THEN PowLoop(IF exponent % 2 = 1 THEN ModTimes(result, base).num ELSE result,
                 ModTimes(base, base).num,
                 exponent \div 2)
    ELSE result

\* pow(T exponent).  A negative exponent recurses on inverse() with
\* -exponent, evaluated in T: for min(T) it is min(T) again.
ModPow(a, exponent) ==
    IF exponent < 0
    THEN LET i == ModInverse(a)
         IN  IF i.kind # "modular" THEN i
             ELSE IF exponent = TMin
             THEN (IF build = "trap" THEN Abort ELSE NoReturn)
             ELSE Modular(PowLoop(Mod(1), i.num, -exponent), i.ub)
    ELSE Modular(PowLoop(Mod(1), a, exponent), FALSE)

InitMod ==
    /\ build \in Builds
    /\ pc = "start"
    /\ call = NoCall
    /\ lhs = Default
    /\ rhs = Default
    /\ ret = NoRet
    /\ ub = FALSE
    /\ ApproxIdle
    /\ CFIdle
    /\ FareyIdle
    /\ Modulus \in 1..TMax
    /\ mod_a = 0
    /\ mod_b = 0
    /\ RnsIdle

\* modular<T, Modulus> v(value): the first value built is *this, the
\* second other.
ModConstruct ==
    /\ pc \in {"start", "lhs"}
    /\ \E v \in T :
        \E r \in {ModularOf(v, FALSE)} :
            /\ call' = [op |-> "modular", n |-> v, d |-> 0]
            /\ ret' = r
            /\ ub' = r.ub
            /\ pc' = IF pc = "start" THEN "lhs" ELSE "operands"
            /\ mod_a' = IF pc = "start" THEN r.num ELSE mod_a
            /\ mod_b' = IF pc = "lhs" THEN r.num ELSE mod_b
    /\ UNCHANGED <<build, lhs, rhs, approxVars, cfVars, fareyVars, Modulus, rnsVars>>

ModInvoke(op, e, r) ==
    /\ pc = "operands"
    /\ call' = [op |-> op, n |-> e, d |-> 0]
    /\ ret' = r
    /\ ub' = r.ub
    /\ pc' = "done"
    /\ UNCHANGED <<build, lhs, rhs, approxVars, extVars>>

ModAdd == ModInvoke("operator+", 0, ModPlus(mod_a, mod_b))
ModSubtract == ModInvoke("operator-", 0, ModMinus(mod_a, mod_b))
ModMultiply == ModInvoke("operator*", 0, ModTimes(mod_a, mod_b))
ModQuotient == ModInvoke("operator/", 0, ModDivide(mod_a, mod_b))
ModUnaryMinus == ModInvoke("unary-", 0, ModNegate(mod_a))
ModTakeInverse == ModInvoke("inverse", 0, ModInverse(mod_a))
ModTakePow == \E e \in T : ModInvoke("pow", e, ModPow(mod_a, e))

NextMod ==
    \/ ModConstruct
    \/ ModAdd
    \/ ModSubtract
    \/ ModMultiply
    \/ ModQuotient
    \/ ModUnaryMinus
    \/ ModTakeInverse
    \/ ModTakePow

SpecMod == InitMod /\ [][NextMod]_vars


-----------------------------------------------------------------------------
(* residue_number_system<int32_t, N>                                       *)
(* (src/include/cbt/residue_number_system.hpp)                             *)
(* T is int32_t at its full width: the fixed default moduli 251, 253, 255  *)
(* (, 256) are constants of the source and their products are what does    *)
(* or does not fit.  No intermediate below leaves the 32-bit range of the  *)
(* model checker's own integers.                                           *)

Int32Max == 2147483647
Int32Min == -Int32Max - 1

MaxN == 5               \* default systems have N in 1..MaxN
MaxModulus == 4         \* supplied moduli are pairs over 1..MaxModulus

\* a + b leaves the range of int32_t
AddOverflows(a, b) ==
    \/ b > 0 /\ a > Int32Max - b
    \/ b < 0 /\ a < Int32Min - b

\* The one element of a singleton: S is evaluated once.
The(S) == CHOOSE v \in S : TRUE

\* a + b modulo 2^32, as a wrapping build leaves it
Add32(a0, b0) ==
    The({ IF b > 0 /\ a > Int32Max - b THEN (a + Int32Min) + (b + Int32Min)
          ELSE IF b < 0 /\ a < Int32Min - b THEN (a - Int32Min) + (b - Int32Min)
          ELSE a + b : a \in {a0}, b \in {b0} })

Neg32(a) == IF a = Int32Min THEN Int32Min ELSE -a

SubOverflows(a, b) ==
    \/ b < 0 /\ a > Int32Max + b
    \/ b > 0 /\ a < Int32Min + b

Sub32(a, b) == Add32(a, Neg32(b))

\* a * b modulo 2^32, by doubling a along the bits of b
RECURSIVE Mul32(_, _)
Mul32(a0, b0) ==
    The({ IF b = 0 THEN 0
          ELSE IF b = Int32Min THEN (IF a % 2 = 0 THEN 0 ELSE Int32Min)
          ELSE IF b < 0 THEN Neg32(Mul32(a, -b))
          ELSE Add32(IF b % 2 = 1 THEN a ELSE 0, Mul32(Add32(a, a), b \div 2))
          : a \in {a0}, b \in {b0} })

\* m / n truncated toward zero (n # 0, and not min / -1)
Div32(m0, n0) ==
    The({ IF n = Int32Min THEN (IF m = Int32Min THEN 1 ELSE 0)
          ELSE LET d == IF n < 0 THEN -n ELSE n
                   q == IF m < 0 /\ m % d # 0 THEN (m \div d) + 1 ELSE m \div d
               IN  IF n < 0 THEN Neg32(q) ELSE q
          : m \in {m0}, n \in {n0} })

\* m % n: the remainder has the sign of m
Rem32(m0, n0) == The({ m - Div32(m, n) * n : m \in {m0}, n \in {n0} })

\* a * b leaves the range of int32_t
MulOverflows(a0, b0) ==
    \E a \in {a0}, b \in {b0} :
        /\ a # 0
        /\ b # 0
        /\ \/ a = -1 /\ b = Int32Min
           \/ a = Int32Min /\ b = -1
           \/ Div32(Mul32(a, b), a) # b

\* A residue_number_system whose dynamic_range_ is r is returned.
Rns(r, u) ==
    [kind |-> "rns", num |-> r, den |-> 1, flag |-> FALSE, what |-> "", ub |-> u]

\* The T v is returned.
Integer(v, u) ==
    [kind |-> "integer", num |-> v, den |-> 1, flag |-> FALSE, what |-> "", ub |-> u]

\* extended_gcd(a, b, x, y): the gcd and the coefficients, computed in T.
RECURSIVE extended_gcd(_, _)
extended_gcd(a, b) ==
    IF b = 0 THEN [gcd |-> a, x |-> 1, y |-> 0, ub |-> FALSE]
    ELSE The({ [gcd |-> r.gcd, x |-> r.y, y |-> Sub32(r.x, Mul32(q, r.y)),
                ub |-> \/ r.ub
                       \/ MulOverflows(q, r.y)
                       \/ SubOverflows(r.x, Mul32(q, r.y))]
               : r \in {extended_gcd(b, Rem32(a, b))}, q \in {Div32(a, b)} })

\* mod_inverse(a, m): (x % m + m) % m, or the runtime_error.
mod_inverse(a, m) ==
    The({ IF e.gcd # 1 THEN RuntimeError("Modular inverse does not exist")
          ELSE Integer(Rem32(Add32(Rem32(e.x, m), m), m),
                       e.ub \/ AddOverflows(Rem32(e.x, m), m))
          : e \in {extended_gcd(a, m)} })

PairwiseCoprime(m) ==
    \A i \in 1..Len(m) : \A j \in (i + 1)..Len(m) : Euclid(Abs(m[i]), Abs(m[j])) = 1

\* dynamic_range_ = 1; for (T m : moduli_) dynamic_range_ *= m;
RECURSIVE RangeOf(_, _, _)
RangeOf(m, i, acc) ==
    IF i > Len(m) THEN acc
    ELSE RangeOf(m, i + 1, The({[v |-> Mul32(acc.v, m[i]),
                                 ub |-> acc.ub \/ MulOverflows(acc.v, m[i])]}))

\* residue_number_system(const std::array<T, N>& moduli)
RnsOf(m) ==
    IF ~PairwiseCoprime(m) THEN InvalidArgument("Moduli must be coprime")
    ELSE LET r == RangeOf(m, 1, [v |-> 1, ub |-> FALSE])
         IN  IF r.ub /\ build = "trap" THEN Abort ELSE Rns(r.v, r.ub)

\* The inner while loop of default_moduli: current is advanced until it is
\* coprime with result[0 .. i-1].
RECURSIVE NextCoprime(_, _)
NextCoprime(current, result) ==
    IF \A j \in 1..Len(result) : Euclid(current, result[j]) = 1
    THEN current
    ELSE NextCoprime(current + 1, result)

\* The outer loop of default_moduli: result[i] = current++, then the search.
RECURSIVE Generated(_, _, _)
Generated(result, current, N) ==
    IF Len(result) = N THEN result
    ELSE Generated(Append(result, current),
                   IF Len(result) > 0 THEN NextCoprime(current + 1, result)
                   ELSE current + 1,
                   N)

default_moduli(N) ==
    IF N = 3 THEN <<251, 253, 255>>
    ELSE IF N = 4 THEN <<251, 253, 255, 256>>
    ELSE Generated(<< >>, 2, N)

\* The residues from_integer(value, moduli) stores, and whether forming
\* them overflowed.
FromInteger(v, m) ==
    [res |-> [i \in 1..Len(m) |-> Rem32(Add32(Rem32(v, m[i]), m[i]), m[i])],
     ub |-> \E i \in 1..Len(m) : AddOverflows(Rem32(v, m[i]), m[i])]

RnsPlus(r, o, m) ==
    [res |-> [i \in 1..Len(m) |-> Rem32(Add32(r[i], o[i]), m[i])],
     ub |-> \E i \in 1..Len(m) : AddOverflows(r[i], o[i])]

RnsMinus(r, o, m) ==
    [res |-> [i \in 1..Len(m) |->
                 Rem32(Add32(Rem32(Sub32(r[i], o[i]), m[i]), m[i]), m[i])],
     ub |-> \E i \in 1..Len(m) :
                \/ SubOverflows(r[i], o[i])
                \/ AddOverflows(Rem32(Sub32(r[i], o[i]), m[i]), m[i])]

RnsTimes(r, o, m) ==
    [res |-> [i \in 1..Len(m) |-> Rem32(Mul32(r[i], o[i]), m[i])],
     ub |-> \E i \in 1..Len(m) : MulOverflows(r[i], o[i])]

\* The loop of to_integer from pass i on, result being acc.num; it stops
\* at the first pass that throws or aborts.
RECURSIVE CrtLoop(_, _, _, _, _)
CrtLoop(r, m, range, i, acc) ==
    IF i > Len(m) \/ acc.kind # "integer" THEN acc
    ELSE CrtLoop(r, m, range, i + 1, The({
             LET p == Mul32(r[i], Mi)
                 t == Mul32(p, Mi_inv.num)
                 u == \/ Mi_inv.ub
                      \/ MulOverflows(r[i], Mi)
                      \/ MulOverflows(p, Mi_inv.num)
                      \/ AddOverflows(acc.num, t)
             IN  IF Mi_inv.kind # "integer" THEN Mi_inv
                 ELSE IF u /\ build = "trap" THEN Abort
                 ELSE Integer(Rem32(Add32(acc.num, t), range), acc.ub \/ u)
             : Mi \in {Div32(range, m[i])},
               Mi_inv \in {mod_inverse(Rem32(Div32(range, m[i]), m[i]), m[i])} }))

\* T to_integer() const
ToInteger(r, m, range) == CrtLoop(r, m, range, 1, Integer(0, FALSE))

\* The integers handed to from_integer.
RnsInputs == {-8, -1, 0, 1, 3, 5, 7, 8, 15, 107, 213, 1000}

InitRns ==
    /\ build \in Builds
    /\ pc = "start"
    /\ call = NoCall
    /\ lhs = Default
    /\ rhs = Default
    /\ ret = NoRet
    /\ ub = FALSE
    /\ ApproxIdle
    /\ CFIdle
    /\ FareyIdle
    /\ ModIdle
    /\ RnsIdle

RnsBuilt(op, m, n, d) ==
    /\ pc = "start"
    /\ \E r \in {RnsOf(m)} :
        /\ call' = [op |-> op, n |-> n, d |-> d]
        /\ ret' = r
        /\ ub' = r.ub
        /\ pc' = IF r.kind = "rns" THEN "system" ELSE "done"
        /\ moduli_' = IF r.kind = "rns" THEN m ELSE moduli_
        /\ dynamic_range_' = IF r.kind = "rns" THEN r.num ELSE dynamic_range_
        /\ residues_' = IF r.kind = "rns" THEN [i \in 1..Len(m) |-> 0] ELSE residues_
    /\ UNCHANGED <<build, lhs, rhs, approxVars, cfVars, fareyVars, modVars,
                   other_residues, value_a, value_b, rns_op>>

\* residue_number_system<int32_t, N> s;
RnsDefaultConstruct ==
    \E N \in 1..MaxN :
        RnsBuilt("residue_number_system()", default_moduli(N), N, 0)

\* residue_number_system<int32_t, 2> s(moduli);
RnsConstruct ==
    \E m1 \in 1..MaxModulus, m2 \in 1..MaxModulus :
        RnsBuilt("residue_number_system(moduli)", <<m1, m2>>, m1, m2)

\* from_integer(value, moduli) on the moduli of the system: the first value
\* made is *this, the second other.  The constructor it runs is the one
\* that built the system.
RnsFromInteger ==
    /\ pc \in {"system", "lhs"}
    /\ \E v \in RnsInputs :
        \E f \in {FromInteger(v, moduli_)} :
            \E r \in {IF f.ub /\ build = "trap" THEN Abort
                      ELSE Rns(dynamic_range_, ub \/ f.ub)} :
                /\ call' = [op |-> "from_integer", n |-> v, d |-> 0]
                /\ ret' = r
                /\ ub' = r.ub
                /\ pc' = IF r.kind # "rns" THEN "done"
                         ELSE IF pc = "system" THEN "lhs" ELSE "operands"
                /\ residues_' = IF pc = "system" THEN f.res ELSE residues_
                /\ other_residues' = IF pc = "lhs" THEN f.res ELSE other_residues
                /\ value_a' = IF pc = "system" THEN v ELSE value_a
                /\ value_b' = IF pc = "lhs" THEN v ELSE value_b
                /\ rns_op' = "from_integer"
    /\ UNCHANGED <<build, lhs, rhs, approxVars, cfVars, fareyVars, modVars,
                   moduli_, dynamic_range_>>

\* *this op other: the result takes the place of *this.
RnsInvoke(op, f) ==
    /\ pc = "operands"
    /\ \E r \in {IF f.ub /\ build = "trap" THEN Abort
                 ELSE Rns(dynamic_range_, ub \/ f.ub)} :
        /\ call' = [op |-> op, n |-> 0, d |-> 0]
        /\ ret' = r
        /\ ub' = r.ub
        /\ pc' = IF r.kind = "rns" THEN "result" ELSE "done"
        /\ residues_' = f.res
        /\ rns_op' = op
    /\ UNCHANGED <<build, lhs, rhs, approxVars, cfVars, fareyVars, modVars,
                   moduli_, dynamic_range_, other_residues, value_a, value_b>>

RnsAdd == RnsInvoke("operator+", RnsPlus(residues_, other_residues, moduli_))
RnsSubtract == RnsInvoke("operator-", RnsMinus(residues_, other_residues, moduli_))
RnsMultiply == RnsInvoke("operator*", RnsTimes(residues_, other_residues, moduli_))

\* to_integer() on *this: a value made by from_integer, or the result of
\* an operator.
RnsToInteger ==
    /\ pc \in {"lhs", "result"}
    /\ \E r \in {ToInteger(residues_, moduli_, dynamic_range_)} :
        /\ call' = [op |-> "to_integer", n |-> 0, d |-> 0]
        /\ ret' = r
        /\ ub' = (ub \/ r.ub)
        /\ pc' = "done"
    /\ UNCHANGED <<build, lhs, rhs, approxVars, cfVars, fareyVars, modVars, rnsVars>>

NextRns ==
    \/ RnsDefaultConstruct
    \/ RnsConstruct
    \/ RnsFromInteger
    \/ RnsAdd
    \/ RnsSubtract
    \/ RnsMultiply
    \/ RnsToInteger

SpecRns == InitRns /\ [][NextRns]_vars

-----------------------------------------------------------------------------
(* Properties *)

\* gcd(|num|, den) = 1 and den > 0
InLowestTerms(n, d) == d > 0 /\ Euclid(Abs(n), d) = 1

Returned == pc = "done" /\ ret.kind = "value"

\* C1: every stern_brocot value an operation produces (the constructed
\* operands and the value an operation returns) has denominator > 0 and
\* gcd(|numerator|, denominator) = 1, for all arguments in T.
C1_ProducedValuesReduced ==
    /\ InLowestTerms(num_(lhs), den_(lhs))
    /\ InLowestTerms(num_(rhs), den_(rhs))
    /\ ret.kind = "value" => InLowestTerms(ret.num, ret.den)

\* C2: a value returned by approximate(x, max_den) has a denominator d
\* with 1 <= d <= max_den, whichever way the loop was left.
C2_DenominatorWithinBound ==
    (call.op = "approximate" /\ Returned) =>
        (1 <= ret.den /\ ret.den <= max_den)

\* |x - p/q|, exactly
ErrorOf(p, q) == RatAbs(RatSub(<<x.n, x.d>>, Rat(p, q)))

\* C3: no rational p/q with 1 <= q <= max_den is strictly closer to x than
\* the value approximate(x, max_den) returns (brute force over q; for each
\* q the two integers p around x*q are the only candidates).
C3_BestApproximation ==
    (call.op = "approximate" /\ Returned) =>
        /\ ret.den > 0
        /\ \A q \in 1..max_den :
            \A p \in {Floor(<<x.n * q, x.d>>), Floor(<<x.n * q, x.d>>) + 1} :
                ~RatLess(ErrorOf(p, q), ErrorOf(ret.num, ret.den))

\* static_cast<double>(p) / q: the double nearest to p/q
DoubleOf(p, q) == Round(DoubleBits, Rat(p, q))

\* C4: for q > 0 and gcd(p, q) = 1, approximate(p/q, q) returns numerator p
\* and denominator q.
C4_RoundTrip ==
    (call.op = "approximate" /\ pc = "done") =>
        \A p \in T, q \in 1..TMax :
            ( /\ Euclid(Abs(p), q) = 1
              /\ max_den = q
              /\ isfinite(x)
              /\ <<x.n, x.d>> = DoubleOf(p, q) )
            => (ret.kind = "value" /\ ret.num = p /\ ret.den = q)

CrossProductOverflows(a, b) ==
    ~InT(num_(a) * den_(b)) \/ ~InT(num_(b) * den_(a))

\* C5: operator< and operator== fail with an Overflow error whenever one of
\* the cross-products leaves the range of T; no boolean computed from a
\* wrapped product is returned.
C5_ComparisonOverflowDetected ==
    ( /\ pc = "done"
      /\ call.op \in {"operator<", "operator=="}
      /\ CrossProductOverflows(lhs, rhs) )
    => ret.kind = "overflow_error"

\* C6: once an intermediate of approximate (the partial quotient a, a
\* convergent, a semiconvergent) has left the range of T, the call has
\* failed with Overflow: the search does not go on with the wrapped value.
C6_ApproximateOverflowDetected ==
    (call.op = "approximate" /\ ub) =>
        (pc = "done" /\ ret.kind = "overflow_error")

\* C7: stern_brocot(n, 0) throws "Denominator cannot be zero" for every n
\* and the caller gets no value.
C7_ZeroDenominatorThrows ==
    (call.op = "stern_brocot" /\ call.d = 0) =>
        /\ pc = "done"
        /\ ret.kind = "invalid_argument"
        /\ ret.what = "Denominator cannot be zero"
        /\ rhs = Default

C7_Witness ==
    /\ call.op = "stern_brocot" /\ call.d = 0 /\ call.n = TMin
    /\ lhs # Default
    /\ ret.kind = "invalid_argument"

\* C8: a / b fails with a division-by-zero error exactly when b's numerator
\* is 0; otherwise it returns the exact quotient in lowest terms with a
\* positive denominator.
C8_DivideByZeroExactly ==
    (pc = "done" /\ call.op = "operator/") =>
        /\ ret.kind = "invalid_argument" <=> num_(rhs) = 0
        /\ num_(rhs) # 0 =>
            /\ ret.kind = "value"
            /\ InLowestTerms(ret.num, ret.den)
            /\ ret.num * (den_(lhs) * num_(rhs))
                 = ret.den * (num_(lhs) * den_(rhs))

\* C9: approximate throws for max_den <= 0 and for a NaN or infinite x
\* without entering the search, and returns a value for every finite x and
\* max_den > 0 whose search does not overflow: the call is always at a
\* point from which it steps on (the checks, the loop with at most
\* IterationCap passes made, the code after the loop) until it is done,
\* and it is then done with a value.
C9_ApproximateArgumentChecks ==
    call.op = "approximate" =>
        /\ pc \in {"approximate", "loop", "after_loop", "done"}
        /\ iterations \in 0..IterationCap
        /\ (max_den <= 0 \/ ~isfinite(x)) =>
               (pc \in {"approximate", "done"} /\ exit = "none")
        /\ pc = "done" =>
            /\ max_den <= 0 =>
                 (ret.kind = "invalid_argument"
                    /\ ret.what = "max_den must be positive")
            /\ (max_den > 0 /\ ~isfinite(x)) =>
                 (ret.kind = "invalid_argument"
                    /\ ret.what = "Cannot approximate NaN or infinity")
            /\ (max_den > 0 /\ isfinite(x) /\ ~ub) => ret.kind = "value"

C9_Witness ==
    /\ call.op = "approximate" /\ pc = "done"
    /\ x.cls = "inf" /\ x.n = -1 /\ max_den = TMax
    /\ ret.kind = "invalid_argument"

\* C10: for reduced a/b < c/d with b*c - a*d = 1, a.mediant(c) is
\* (a+c)/(b+d) as it stands, and operator< puts it strictly between them.
C10_MediantBetween ==
    ( /\ pc = "done" /\ call.op = "mediant"
      /\ InLowestTerms(num_(lhs), den_(lhs))
      /\ InLowestTerms(num_(rhs), den_(rhs))
      /\ num_(lhs) * den_(rhs) < num_(rhs) * den_(lhs)
      /\ den_(lhs) * num_(rhs) - num_(lhs) * den_(rhs) = 1 )
    =>  /\ ret.kind = "value"
        /\ ret.num = num_(lhs) + num_(rhs)
        /\ ret.den = den_(lhs) + den_(rhs)
        /\ OperatorLess(lhs, <<ret.num, ret.den>>) = Bool(TRUE, FALSE)
        /\ OperatorLess(<<ret.num, ret.den>>, rhs) = Bool(TRUE, FALSE)


-----------------------------------------------------------------------------
(* Arithmetic against the exact rational result *)

\* The exact value p/q (q # 0) in lowest terms with a positive denominator.
ReducedForm(p, q) ==
    LET g == Euclid(Abs(p), Abs(q))
    IN  IF q < 0 THEN <<(-p) \div g, (-q) \div g>> ELSE <<p \div g, q \div g>>

\* The products of one component of a with one component of b that the
\* operator named op forms.
CrossProducts(op, a, b) ==
    IF op \in {"operator+", "operator-"}
    THEN {num_(a) * den_(b), num_(b) * den_(a), den_(a) * den_(b)}
    ELSE IF op = "operator*"
    THEN {num_(a) * num_(b), den_(a) * den_(b)}
    ELSE {num_(a) * den_(b), den_(a) * num_(b)}

\* The exact result of a op b as a pair <<p, q>>, not reduced.
ExactResult(op, a, b) ==
    IF op = "operator+"
    THEN <<num_(a) * den_(b) + num_(b) * den_(a), den_(a) * den_(b)>>
    ELSE IF op = "operator-"
    THEN <<num_(a) * den_(b) - num_(b) * den_(a), den_(a) * den_(b)>>
    ELSE IF op = "operator*"
    THEN <<num_(a) * num_(b), den_(a) * den_(b)>>
    ELSE <<num_(a) * den_(b), den_(a) * num_(b)>>

\* C11: for all values a and b whose cross-products fit in T, a + b, a - b,
\* a * b and a / b (b nonzero) return the exact rational result in reduced
\* form; 0/1 + a and 1/1 * a equal a component for component.
C11_ArithmeticExact ==
    ( /\ pc = "done"
      /\ call.op \in {"operator+", "operator-", "operator*", "operator/"}
      /\ \A p \in CrossProducts(call.op, lhs, rhs) : InT(p)
      /\ call.op = "operator/" => num_(rhs) # 0 )
    =>  /\ ret.kind = "value"
        /\ LET e == ExactResult(call.op, lhs, rhs)
           IN  <<ret.num, ret.den>> = ReducedForm(e[1], e[2])
        /\ (call.op = "operator+" /\ lhs = <<0, 1>>) =>
               <<ret.num, ret.den>> = rhs
        /\ (call.op = "operator*" /\ lhs = <<1, 1>>) =>
               <<ret.num, ret.den>> = rhs


-----------------------------------------------------------------------------
(* The tie between the last convergent and the semiconvergent *)

\* The largest admissible semiconvergent of the convergents prev, curr:
\* (t*curr + prev) with t = floor((max_den - prev_den) / curr_den).
LargestSemiconvergent ==
    LET t == (max_den - prev_den) \div curr_den
    IN  [t |-> t, num |-> t * curr_num + prev_num, den |-> t * curr_den + prev_den]

\* The convergent curr and the largest admissible semiconvergent are both
\* values of T with a denominator in 1..max_den, at the same distance
\* from |x|.
EquallyClose ==
    /\ 0 < curr_den /\ curr_den <= max_den /\ 0 <= prev_den
    /\ LET sc == LargestSemiconvergent
       IN  /\ sc.t >= 1
           /\ 0 < sc.den /\ sc.den <= max_den /\ InT(sc.num)
           /\ RatAbs(RatSub(value, <<sc.num, sc.den>>))
                = RatAbs(RatSub(value, <<curr_num, curr_den>>))

-----------------------------------------------------------------------------
(* Continued fractions *)

\* The expansion with a_i = floor(n_i / d_i) along (n, d) <- (d, n - a_i*d),
\* over the unbounded integers.
RECURSIVE FloorExpansion(_, _)
FloorExpansion(n, d) ==
    IF d = 0 THEN << >>
    ELSE LET a == Floor(Rat(n, d))
         IN  <<a>> \o FloorExpansion(d, n - a * d)

\* C13: for every value n/d, negative numerators included,
\* to_continued_fraction returns the partial quotients
\* a_i = floor(n_i / d_i) of the recurrence (n, d) <- (d, n - a_i*d), so
\* every partial quotient after the first is at least 1.
C13_FloorPartialQuotients ==
    (call.op = "to_continued_fraction" /\ pc = "done" /\ ret.kind = "vector") =>
        /\ cf_seq = FloorExpansion(num_(lhs), den_(lhs))
        /\ \A i \in 2..Len(cf_seq) : cf_seq[i] >= 1

\* C14: to_continued_fraction terminates for every value: the loop reaches
\* d == 0 and the call returns a finite, non-empty sequence.
C14_Terminates ==
    <>(pc = "done" /\ ret.kind = "vector" /\ cf_d = 0 /\ Len(cf_seq) >= 1)


-----------------------------------------------------------------------------
(* Farey sequences *)

\* Every adjacent pair a/b, c/d of s has a/b < c/d and b*c - a*d = 1.
Unimodular(s) ==
    \A i \in 1..(Len(s) - 1) :
        LET a == num_(s[i])
            b == den_(s[i])
            c == num_(s[i + 1])
            d == den_(s[i + 1])
        IN  /\ b > 0 /\ d > 0
            /\ a * d < c * b
            /\ b * c - a * d = 1

\* C15: during Farey generation for any N > 0, after every step the working
\* sequence is strictly increasing and every adjacent pair a/b, c/d has
\* b*c - a*d = 1; the same holds of the sequence farey(N) returns.
C15_UnimodularAtEveryStep ==
    (call.op = "farey" /\ farey_N > 0 /\ pc \in {"scan", "done"}) =>
        /\ Len(farey_seq) >= 2
        /\ Unimodular(farey_seq)
        /\ pc = "done" => ret.kind = "sequence"

C15_Witness ==
    /\ call.op = "farey" /\ pc = "scan" /\ farey_N = 5
    /\ farey_seq = << <<0, 1>>, <<1, 5>>, <<1, 4>>, <<1, 3>>, <<1, 2>>, <<1, 1>> >>
    /\ farey_pos = 4

\* The reduced fractions p/q of [0, 1] with 1 <= q <= N.
ReducedFractions(N) ==
    { <<p, q>> \in (0..N) \X (1..N) : p <= q /\ Euclid(p, q) = 1 }

\* C16: farey(N) contains every reduced fraction p/q of [0, 1] with
\* 1 <= q <= N exactly once and nothing else; farey(5) is
\* 0/1, 1/5, 1/4, 1/3, 2/5, 1/2, 3/5, 2/3, 3/4, 4/5, 1/1.
C16_FareyComplete ==
    (call.op = "farey" /\ pc = "done" /\ farey_N > 0) =>
        /\ ret.kind = "sequence"
        /\ {farey_seq[i] : i \in 1..Len(farey_seq)} = ReducedFractions(farey_N)
        /\ Len(farey_seq) = Cardinality(ReducedFractions(farey_N))
        /\ farey_N = 5 =>
             farey_seq = << <<0, 1>>, <<1, 5>>, <<1, 4>>, <<1, 3>>, <<2, 5>>,
                            <<1, 2>>, <<3, 5>>, <<2, 3>>, <<3, 4>>, <<4, 5>>,
                            <<1, 1>> >>

C16_Witness ==
    /\ call.op = "farey" /\ pc = "done" /\ farey_N = 5
    /\ ret.kind = "sequence" /\ Len(farey_seq) = 11

\* C17: the Farey scan terminates for every N > 0, and it ends only when
\* every adjacent pair a/b, c/d of the sequence has b + d > N.
C17_ScanTerminates ==
    /\ (farey_N > 0) ~> (pc = "done" /\ ret.kind = "sequence")
    /\ [](  (call.op = "farey" /\ pc = "done" /\ farey_N > 0) =>
               \A i \in 1..(Len(farey_seq) - 1) :
                   den_(farey_seq[i]) + den_(farey_seq[i + 1]) > farey_N )

C17_Witness ==
    /\ call.op = "farey" /\ pc = "done" /\ farey_N = TMax
    /\ ret.kind = "sequence"
    /\ farey_pos = Len(farey_seq)
    /\ farey_pos > 2


-----------------------------------------------------------------------------
(* modular<T, Modulus> *)

\* C18: every modular<T, M> value produced by construction from any
\* integer of T or by +, -, unary -, *, pow or inverse has value() in
\* [0, M).
C18_ValueInRange ==
    /\ mod_a \in 0..(Modulus - 1)
    /\ mod_b \in 0..(Modulus - 1)
    /\ ret.kind = "modular" => ret.num \in 0..(Modulus - 1)

C18_Witness ==
    /\ pc = "done" /\ call.op = "unary-" /\ Modulus = TMax
    /\ mod_a = 1 /\ ret.kind = "modular" /\ ret.num = TMax - 1

\* C19: (a * b).value() is (a.value() * b.value()) mod M computed over the
\* unbounded integers, also when the product does not fit in T.
C19_ProductExact ==
    (pc = "done" /\ call.op = "operator*") =>
        /\ ret.kind = "modular"
        /\ ret.num = (mod_a * mod_b) % Modulus

\* C20: for x with gcd(x.value(), M) = 1, x * x.inverse() has value
\* 1 mod M; for gcd(x.value(), M) # 1, inverse() fails with an error and
\* returns no value.
C20_InverseOrError ==
    (pc = "done" /\ call.op = "inverse") =>
        IF Euclid(mod_a, Modulus) = 1
        THEN /\ ret.kind = "modular"
             /\ ModTimes(mod_a, ret.num) = Modular(1 % Modulus, FALSE)
        ELSE ret.kind = "runtime_error"


\* a^e over the unbounded integers, with a^0 = 1.
RECURSIVE Power(_, _)
Power(a, e) == IF e = 0 THEN 1 ELSE a * Power(a, e - 1)

\* M is a prime number.
IsPrime(M) == M > 1 /\ \A k \in 2..(M - 1) : M % k # 0

\* C21: for every modular<T, M> value a and every exponent e >= 0,
\* a.pow(e).value() is a.value()^e mod M, with pow(0) equal to 1 mod M;
\* for prime M and a # 0, a.pow(M - 1) has value 1.
C21_PowExact ==
    (pc = "done" /\ call.op = "pow" /\ call.n >= 0) =>
        /\ ret.kind = "modular"
        /\ ret.num = Power(mod_a, call.n) % Modulus
        /\ (IsPrime(Modulus) /\ mod_a # 0 /\ call.n = Modulus - 1) => ret.num = 1


-----------------------------------------------------------------------------
(* approximate: sign, semiconvergent, termination, unimodularity *)

\* What approximate(|x|, max_den) returns from the locals the loop left:
\* the loop reads value = |x| and max_den only, so both calls leave the
\* same locals.
ResultForAbs ==
    IF curr_den = 0 THEN SternBrocot(0, 1, ub) ELSE SternBrocot(curr_num, curr_den, ub)

\* C24: for every finite x and N > 0, approximate(-x, N) has the
\* denominator of approximate(x, N) and the negated numerator; the search
\* runs on |x| only, and approximate(0, N) is 0/1.
C24_SignSymmetry ==
    (call.op = "approximate" /\ isfinite(x) /\ max_den > 0) =>
        /\ pc = "loop" => value = RatAbs(<<x.n, x.d>>)
        /\ (pc = "done" /\ x.n = 0) =>
               (ret.kind = "value" /\ ret.num = 0 /\ ret.den = 1)
        /\ (pc = "done" /\ x.n < 0 /\ exit # "none"
              /\ ResultForAbs.kind = "value") =>
               /\ ret.kind = "value"
               /\ ret.num = -ResultForAbs.num
               /\ ret.den = ResultForAbs.den


\* The t of the semiconvergent step as the code computes it in T.
CodeT == TruncDiv(Wrap(max_den - prev_den), curr_den)

\* The partial quotient a of the pass about to run.
CodeA == ToT(Floor(cf_value))

\* C25: when the next convergent's denominator exceeds N, the t of the
\* semiconvergent is floor((N - prev_den) / curr_den), the largest k with
\* k*curr_den + prev_den <= N, so N - curr_den < t*curr_den + prev_den <= N
\* and t < a; when t <= 0 the current convergent is kept unchanged.
C25_LargestSemiconvergent ==
    [][ ( /\ pc = "loop" /\ iterations < IterationCap
          /\ LoopBody(prev_num, prev_den, curr_num, curr_den, cf_value).exit
               = "overshoot" )
        =>  /\ curr_den # 0
            /\ ~(Wrap(max_den - prev_den) = TMin /\ curr_den = -1)
            /\ CodeT * curr_den + prev_den <= max_den
            /\ max_den - curr_den < CodeT * curr_den + prev_den
            /\ \A k \in 1..TMax :
                   k * curr_den + prev_den <= max_den => k <= CodeT
            /\ CodeT < CodeA
            /\ CodeT <= 0 =>
                   /\ pc' = "after_loop"
                   /\ curr_num' = curr_num /\ curr_den' = curr_den
      ]_vars


\* C26: approximate makes at most 256 passes through the loop body; for
\* every bound N of T the loop is left through the overshoot or the exact
\* branch before the cap, and a call that did leave by the cap still
\* returns a denominator in 1..N.
C26_ExitBeforeCap ==
    call.op = "approximate" =>
        /\ iterations <= IterationCap
        /\ exit # "cap"
        /\ (pc = "done" /\ exit = "cap" /\ ret.kind = "value") =>
               (1 <= ret.den /\ ret.den <= max_den)

\* A pass has been completed: the loop goes on, or it was left after the
\* convergents were advanced.
PassCompleted ==
    \/ pc = "loop" /\ iterations >= 1
    \/ pc = "after_loop" /\ exit \in {"exact", "nonfinite"}

\* C27: at the end of every pass of the loop
\* curr_num*prev_den - prev_num*curr_den is +1 or -1 and curr_den >= 1; the
\* convergent or semiconvergent the loop leaves is in lowest terms, the
\* final constructor returns it as it stands, and the curr_den == 0
\* fallback to 0/1 is never taken.
C27_UnimodularConvergents ==
    call.op = "approximate" =>
        /\ PassCompleted =>
               /\ curr_num * prev_den - prev_num * curr_den \in {-1, 1}
               /\ curr_den >= 1
        /\ pc = "after_loop" =>
               /\ curr_den >= 1
               /\ Euclid(Abs(curr_num), curr_den) = 1
        /\ (pc = "done" /\ exit # "none") =>
               /\ ret.kind = "value"
               /\ ret.num = (IF negative THEN -curr_num ELSE curr_num)
               /\ ret.den = curr_den


\* a0 + 1/(a1 + 1/(a2 + ...)) for a non-empty sequence, as a pair <<p, q>>
\* standing for p/q (q = 0 when a division by zero occurs on the way).
RECURSIVE FoldBack(_)
FoldBack(s) ==
    IF Len(s) = 1 THEN <<s[1], 1>>
    ELSE LET r == FoldBack(Tail(s))
         IN  IF r[2] = 0 THEN <<1, 0>> ELSE <<s[1] * r[1] + r[2], r[1]>>

\* C28: for every value r, negative or not, the partial quotients
\* r.to_continued_fraction() returns fold back to exactly
\* r.numerator() / r.denominator().
C28_FoldBackExact ==
    (call.op = "to_continued_fraction" /\ pc = "done") =>
        /\ ret.kind = "vector"
        /\ Len(cf_seq) >= 1
        /\ FoldBack(cf_seq)[2] # 0
        /\ FoldBack(cf_seq)[1] * den_(lhs) = num_(lhs) * FoldBack(cf_seq)[2]


-----------------------------------------------------------------------------
(* stern_brocot<T>: equality and trichotomy *)

Holds(r) == r.kind = "bool" /\ r.flag

ExactlyOne(p, q, r) ==
    /\ p \/ q \/ r
    /\ ~(p /\ q) /\ ~(p /\ r) /\ ~(q /\ r)

\* C29: a == b is true exactly when the two values have the same numerator
\* and the same denominator, and for every pair of values exactly one of
\* a < b, a == b, b < a is true.
C29_EqualityAndTrichotomy ==
    (pc = "done" /\ call.op \in {"operator==", "operator<"}) =>
        /\ ret.kind = "bool"
        /\ call.op = "operator==" => (ret.flag <=> lhs = rhs)
        /\ ExactlyOne(Holds(OperatorLess(lhs, rhs)),
                      Holds(OperatorEq(lhs, rhs)),
                      Holds(OperatorLess(rhs, lhs)))


-----------------------------------------------------------------------------
(* residue_number_system: round trip, arithmetic, construction *)

Converted(op) == pc = "done" /\ call.op = "to_integer" /\ rns_op = op

\* C22: in residue_number_system<int32_t, 3> with the default moduli
\* {251, 253, 255}, from_integer(v).to_integer() is v for every v with
\* 0 <= v < 251 * 253 * 255, the sum of to_integer being computed in T.
C22_RoundTrip ==
    ( /\ Converted("from_integer")
      /\ moduli_ = <<251, 253, 255>>
      /\ 0 <= value_a
      /\ value_a < 251 * 253 * 255 )
    => (ret.kind = "integer" /\ ret.num = value_a)

\* The product of the moduli fits T: dynamic_range_ is that product.
RangeFits == ~RangeOf(moduli_, 1, [v |-> 1, ub |-> FALSE]).ub

ExactOp(op, a, b) ==
    CASE op = "operator+" -> a + b
      [] op = "operator-" -> a - b
      [] op = "operator*" -> a * b

\* C23: for all integers a, b and each of +, -, *, the result of
\* (from_integer(a) op from_integer(b)).to_integer() is (a op b) mod
\* dynamic_range, taken in [0, dynamic_range), in every system of pairwise
\* coprime moduli.
C23_ArithmeticModRange ==
    \A op \in {"operator+", "operator-", "operator*"} :
        (Converted(op) /\ PairwiseCoprime(moduli_) /\ RangeFits) =>
            /\ ret.kind = "integer"
            /\ ret.num = ExactOp(op, value_a, value_b) % dynamic_range_

\* C30: the constructor fails with an error whenever two of the supplied
\* moduli share a common factor; the moduli default_moduli() returns are
\* pairwise coprime for every N, and default construction never fails.
C30_CoprimeOrError ==
    /\ (call.op = "residue_number_system(moduli)" /\ Euclid(call.n, call.d) # 1) =>
           (pc = "done" /\ ret.kind = "invalid_argument"
                        /\ ret.what = "Moduli must be coprime")
    /\ call.op = "residue_number_system()" =>
           (PairwiseCoprime(default_moduli(call.n)) /\ ret.kind = "rns")

=============================================================================
